---------------------------- MODULE Spec2Model ----------------------------
(***************************************************************************)
(* Model of the intrusive doubly-linked list of arceos-org/linked_list:    *)
(* the raw pointer list (src/src/raw_list.rs) and the ownership facade     *)
(* (src/src/linked_list.rs).                                               *)
(*                                                                         *)
(* Elements are identities 1..NumElems, None (0) is the absent pointer.    *)
(* Every list l has its head; every element has its embedded Links: the    *)
(* guard bit inserted[e] and the entry fields next[e], prev[e].            *)
(***************************************************************************)
EXTENDS Integers, Sequences, FiniteSets, TLC

NumElems == 3
NumLists == 2
MaxHandles == 2

None == 0
Elems == 1..NumElems
Lists == 1..NumLists
Ptr == Elems \cup {None}

VARIABLES
    head,       \* RawList.head of every list: [Lists -> Ptr]
    next,       \* ListEntry.next of every element: [Elems -> Ptr]
    prev,       \* ListEntry.prev of every element: [Elems -> Ptr]
    inserted,   \* Links.inserted of every element: [Elems -> BOOLEAN]
    active,     \* whether a CursorMut or an Iterator borrows the list
    cur,        \* CommonCursor.cur of that CursorMut: [Lists -> Ptr]
    iter,       \* the Iterator over the list: its two cursors, its yields
    last,       \* the last completed call and its result
    hist,       \* how each list was built since it was last empty
    strong,     \* Arc strong count of every element: [Elems -> Nat]
    caller,     \* handles the callers hold: [Elems -> Nat]
    owned,      \* raw identities a List keeps: [Lists -> [Elems -> Int]]
    pc,         \* position of the thread working on each list
    call,       \* the call that thread is in
    wrote       \* whether that call has written a head or a next/prev field

listVars == <<head, next, prev, inserted>>
cursorVars == <<active, cur, iter>>
facadeVars == <<strong, caller, owned>>
threadVars == <<pc, call, wrote>>
vars == <<head, next, prev, inserted, active, cur, iter, last, hist,
          strong, caller, owned, pc, call, wrote>>

(***************************************************************************)
(* Sequences.                                                              *)
(***************************************************************************)
Range(s) == {s[i] : i \in 1..Len(s)}

Reverse(s) == [i \in 1..Len(s) |-> s[Len(s) + 1 - i]]

NoDup(s) == \A i, j \in 1..Len(s) : i # j => s[i] # s[j]

IndexOf(s, x) == CHOOSE i \in 1..Len(s) : s[i] = x

\* s without its i-th entry (1-indexed).
Excise(s, i) == [k \in 1..(Len(s) - 1) |-> IF k < i THEN s[k] ELSE s[k + 1]]

\* s with x put right after its i-th entry (1-indexed; i = 0 puts x first).
Splice(s, i, x) ==
    [k \in 1..(Len(s) + 1) |->
        IF k <= i THEN s[k] ELSE IF k = i + 1 THEN x ELSE s[k - 1]]

(***************************************************************************)
(* The memory the raw list works on, as one record.                        *)
(***************************************************************************)
Mem == [head |-> head, next |-> next, prev |-> prev, inserted |-> inserted]

MemNext == [head |-> head', next |-> next', prev |-> prev',
            inserted |-> inserted']

(***************************************************************************)
(* Links: the insertion guard.                                             *)
(***************************************************************************)
\* Variant: the guard is taken without looking at it.
acquire_unconditional(m, x) ==
    [ok |-> TRUE, m |-> [m EXCEPT !.inserted[x] = TRUE]]

\* compare_exchange(false, true): whether the caller now owns the links.
acquire_for_insertion(m, x) ==
    IF m.inserted[x] = FALSE
    THEN [ok |-> TRUE, m |-> [m EXCEPT !.inserted[x] = TRUE]]
    ELSE [ok |-> FALSE, m |-> m]

\* Variant: the guard stays set when the entry leaves its list.
release_after_removal_forgets(m, x) == m

release_after_removal(m, x) == [m EXCEPT !.inserted[x] = FALSE]

(***************************************************************************)
(* RawList.                                                                *)
(***************************************************************************)
front(m, l) == m.head[l]

\* Variant: back answers with the head itself.
back_isHead(m, l) == m.head[l]

back(m, l) == IF m.head[l] = None THEN None ELSE m.prev[m.head[l]]

is_empty(m, l) == m.head[l] = None

\* Variant: the entry after the new one keeps its old prev.
insert_after_priv_noBackLink(m, existing, new) ==
    LET m1 == [m EXCEPT !.next[new] = m.next[existing]]
        m2 == [m1 EXCEPT !.next[existing] = new]
    IN  [m2 EXCEPT !.prev[new] = existing]

\* Variant: existing.next is overwritten before it is read.
insert_after_priv_lateRead(m, existing, new) ==
    LET m1 == [m EXCEPT !.next[existing] = new]
        m2 == [m1 EXCEPT !.next[new] = m1.next[existing]]
        m3 == [m2 EXCEPT !.prev[new] = existing]
        nl == m3.next[new]
    IN  [m3 EXCEPT !.prev[nl] = new]

\* The four pointer writes of the splice, in the order of the code.
insert_after_priv(m, existing, new) ==
    LET m1 == [m EXCEPT !.next[new] = m.next[existing]]
        m2 == [m1 EXCEPT !.next[existing] = new]
        m3 == [m2 EXCEPT !.prev[new] = existing]
        nl == m3.next[new]
    IN  [m3 EXCEPT !.prev[nl] = new]

\* Variant: the new entry is spliced in with its guard left clear.
insert_after_skipsGuard(m, existing, new) ==
    IF m.inserted[new]
    THEN [ok |-> FALSE, m |-> m]
    ELSE [ok |-> TRUE, m |-> insert_after_priv(m, existing, new)]

insert_after(m, existing, new) ==
    LET a == acquire_for_insertion(m, new)
    IN  IF ~a.ok
        THEN [ok |-> FALSE, m |-> m]
        ELSE [ok |-> TRUE, m |-> insert_after_priv(a.m, existing, new)]

\* Variant: a push that is turned down has already moved head.
push_back_internal_lateCheck(m, l, new, atFront) ==
    LET a == acquire_for_insertion(m, new)
        b == back(a.m, l)
    IN  IF ~a.ok
        THEN [ok |-> FALSE, m |-> [m EXCEPT !.head[l] = new]]
        ELSE IF b # None
        THEN LET m1 == insert_after_priv(a.m, b, new)
             IN  [ok |-> TRUE,
                  m |-> IF atFront THEN [m1 EXCEPT !.head[l] = new] ELSE m1]
        ELSE [ok |-> TRUE,
              m |-> [a.m EXCEPT !.head[l] = new,
                                !.next[new] = new,
                                !.prev[new] = new]]

\* Variant: the first element of a list is not linked to itself forwards.
push_back_internal_noSelfLoop(m, l, new, atFront) ==
    LET a == acquire_for_insertion(m, new)
        b == back(a.m, l)
    IN  IF ~a.ok
        THEN [ok |-> FALSE, m |-> m]
        ELSE IF b # None
        THEN LET m1 == insert_after_priv(a.m, b, new)
             IN  [ok |-> TRUE,
                  m |-> IF atFront THEN [m1 EXCEPT !.head[l] = new] ELSE m1]
        ELSE [ok |-> TRUE,
              m |-> [a.m EXCEPT !.head[l] = new, !.prev[new] = new]]

\* Variant: a push that is turned down gives the guard back.
push_back_internal_undoesOnFail(m, l, new, atFront) ==
    LET a == acquire_for_insertion(m, new)
        b == back(a.m, l)
    IN  IF ~a.ok
        THEN [ok |-> FALSE, m |-> release_after_removal(m, new)]
        ELSE IF b # None
        THEN LET m1 == insert_after_priv(a.m, b, new)
             IN  [ok |-> TRUE,
                  m |-> IF atFront THEN [m1 EXCEPT !.head[l] = new] ELSE m1]
        ELSE [ok |-> TRUE,
              m |-> [a.m EXCEPT !.head[l] = new,
                                !.next[new] = new,
                                !.prev[new] = new]]

push_back_internal(m, l, new, atFront) ==
    LET a == acquire_for_insertion(m, new)
        b == back(a.m, l)
    IN  IF ~a.ok
        THEN [ok |-> FALSE, m |-> m]
        ELSE IF b # None
        THEN LET m1 == insert_after_priv(a.m, b, new)
             IN  [ok |-> TRUE,
                  m |-> IF atFront THEN [m1 EXCEPT !.head[l] = new] ELSE m1]
        ELSE [ok |-> TRUE,
              m |-> [a.m EXCEPT !.head[l] = new,
                                !.next[new] = new,
                                !.prev[new] = new]]

\* Variant: push_back moves head as push_front does.
push_back_movesHead(m, l, new) == push_back_internal(m, l, new, TRUE)

push_back(m, l, new) == push_back_internal(m, l, new, FALSE)

\* Variant: push_front leaves head where it is.
push_front_keepsHead(m, l, new) == push_back_internal(m, l, new, FALSE)

push_front(m, l, new) == push_back_internal(m, l, new, TRUE)

\* Variant: head is not moved on when the head is removed.
remove_internal_staleHead(m, l, data) ==
    LET nx == m.next[data]
        m1 == IF data = nx
              THEN [m EXCEPT !.head[l] = None]
              ELSE LET p == [m EXCEPT !.next[m.prev[data]] = m.next[data]]
                   IN  [p EXCEPT !.prev[nx] = p.prev[data]]
        m2 == [m1 EXCEPT !.next[data] = None, !.prev[data] = None]
    IN  IF nx = None
        THEN [ok |-> FALSE, m |-> m]
        ELSE [ok |-> TRUE, m |-> release_after_removal(m2, data)]

\* Variant: removing an entry that is on no list is reported as done.
remove_internal_alwaysTrue(m, l, data) ==
    LET nx == m.next[data]
        m1 == IF data = nx
              THEN [m EXCEPT !.head[l] = None]
              ELSE LET h == IF m.head[l] # None /\ data = m.head[l]
                            THEN [m EXCEPT !.head[l] = nx]
                            ELSE m
                       p == [h EXCEPT !.next[h.prev[data]] = h.next[data]]
                   IN  [p EXCEPT !.prev[nx] = p.prev[data]]
        m2 == [m1 EXCEPT !.next[data] = None, !.prev[data] = None]
    IN  IF nx = None
        THEN [ok |-> TRUE, m |-> m]
        ELSE [ok |-> TRUE, m |-> release_after_removal(m2, data)]

\* Variant: the entry after the removed one keeps pointing back at it.
remove_internal_noPrevFix(m, l, data) ==
    LET nx == m.next[data]
        m1 == IF data = nx
              THEN [m EXCEPT !.head[l] = None]
              ELSE LET h == IF m.head[l] # None /\ data = m.head[l]
                            THEN [m EXCEPT !.head[l] = nx]
                            ELSE m
                   IN  [h EXCEPT !.next[h.prev[data]] = h.next[data]]
        m2 == [m1 EXCEPT !.next[data] = None, !.prev[data] = None]
    IN  IF nx = None
        THEN [ok |-> FALSE, m |-> m]
        ELSE [ok |-> TRUE, m |-> release_after_removal(m2, data)]

\* Variant: head moves on whichever entry is removed.
remove_internal_headFollows(m, l, data) ==
    LET nx == m.next[data]
        m1 == IF data = nx
              THEN [m EXCEPT !.head[l] = None]
              ELSE LET h == [m EXCEPT !.head[l] = nx]
                       p == [h EXCEPT !.next[h.prev[data]] = h.next[data]]
                   IN  [p EXCEPT !.prev[nx] = p.prev[data]]
        m2 == [m1 EXCEPT !.next[data] = None, !.prev[data] = None]
    IN  IF nx = None
        THEN [ok |-> FALSE, m |-> m]
        ELSE [ok |-> TRUE, m |-> release_after_removal(m2, data)]

\* Variant: the removed entry keeps its prev.
remove_internal_keepsPrev(m, l, data) ==
    LET nx == m.next[data]
        m1 == IF data = nx
              THEN [m EXCEPT !.head[l] = None]
              ELSE LET h == IF m.head[l] # None /\ data = m.head[l]
                            THEN [m EXCEPT !.head[l] = nx]
                            ELSE m
                       p == [h EXCEPT !.next[h.prev[data]] = h.next[data]]
                   IN  [p EXCEPT !.prev[nx] = p.prev[data]]
        m2 == [m1 EXCEPT !.next[data] = None]
    IN  IF nx = None
        THEN [ok |-> FALSE, m |-> m]
        ELSE [ok |-> TRUE, m |-> release_after_removal(m2, data)]

remove_internal(m, l, data) ==
    LET nx == m.next[data]
        m1 == IF data = nx
              THEN [m EXCEPT !.head[l] = None]
              ELSE LET h == IF m.head[l] # None /\ data = m.head[l]
                            THEN [m EXCEPT !.head[l] = nx]
                            ELSE m
                       p == [h EXCEPT !.next[h.prev[data]] = h.next[data]]
                   IN  [p EXCEPT !.prev[nx] = p.prev[data]]
        m2 == [m1 EXCEPT !.next[data] = None, !.prev[data] = None]
    IN  IF nx = None
        THEN [ok |-> FALSE, m |-> m]
        ELSE [ok |-> TRUE, m |-> release_after_removal(m2, data)]

remove(m, l, data) == remove_internal(m, l, data)

\* Variant: the head is handed out but stays linked.
pop_front_internal_keeps(m, l) == [out |-> m.head[l], m |-> m]

\* Variant: the element handed out and removed is the back one.
pop_front_internal_takesBack(m, l) ==
    IF m.head[l] = None
    THEN [out |-> None, m |-> m]
    ELSE [out |-> back(m, l), m |-> remove(m, l, back(m, l)).m]

pop_front_internal(m, l) ==
    IF m.head[l] = None
    THEN [out |-> None, m |-> m]
    ELSE [out |-> m.head[l], m |-> remove(m, l, m.head[l]).m]

pop_front(m, l) == pop_front_internal(m, l)

\* pop_front called k times in a row: the memory it leaves and what the
\* calls returned, in the order of the calls.
RECURSIVE PopMem(_, _, _)
PopMem(m, l, k) ==
    IF k = 0 THEN m ELSE PopMem(pop_front(m, l).m, l, k - 1)

RECURSIVE PopOuts(_, _, _)
PopOuts(m, l, k) ==
    IF k = 0 THEN <<>>
    ELSE <<pop_front(m, l).out>> \o PopOuts(pop_front(m, l).m, l, k - 1)

(***************************************************************************)
(* CommonCursor.                                                           *)
(***************************************************************************)
\* Variant: the cursor follows next without looking at head.
move_next_wraps(m, l, c) ==
    IF c = None THEN m.head[l] ELSE m.next[c]

move_next(m, l, c) ==
    IF c = None
    THEN m.head[l]
    ELSE IF m.head[l] # None /\ m.next[c] # m.head[l]
         THEN m.next[c]
         ELSE None

\* Variant: move_prev steps back from the head as from any entry.
move_prev_wraps(m, l, c) ==
    IF m.head[l] = None
    THEN None
    ELSE m.prev[IF c = None THEN m.head[l] ELSE c]

move_prev(m, l, c) ==
    IF m.head[l] = None
    THEN None
    ELSE IF c # None /\ c = m.head[l]
         THEN None
         ELSE m.prev[IF c = None THEN m.head[l] ELSE c]

\* Variant: peek_next moves the cursor it belongs to.
peek_next_movesCursor(m, l, c) ==
    [out |-> move_next(m, l, c), cur |-> move_next(m, l, c), m |-> m]

\* CursorMut::peek_next: a copy of the cursor is moved and read; out is
\* what is returned, cur where the cursor itself stands afterwards.
peek_next(m, l, c) ==
    LET new == move_next(m, l, c)
    IN  [out |-> new, cur |-> c, m |-> m]

peek_prev(m, l, c) ==
    LET new == move_prev(m, l, c)
    IN  [out |-> new, cur |-> c, m |-> m]

\* move_next called k times on a cursor that stands on c.
RECURSIVE MoveNextTimes(_, _, _, _)
MoveNextTimes(m, l, c, k) ==
    IF k = 0 THEN c ELSE MoveNextTimes(m, l, move_next(m, l, c), k - 1)

\* The prev field followed k times from entry c.
RECURSIVE PrevTimes(_, _, _)
PrevTimes(m, c, k) ==
    IF k = 0 \/ c = None THEN c ELSE PrevTimes(m, m.prev[c], k - 1)

\* The next field followed k times from entry c.
RECURSIVE NextTimes(_, _, _)
NextTimes(m, c, k) ==
    IF k = 0 \/ c = None THEN c ELSE NextTimes(m, m.next[c], k - 1)

\* Variant: the entry is unlinked before the cursor moves on.
remove_current_unlinksFirst(m, l, c) ==
    IF c = None
    THEN [out |-> None, cur |-> c, m |-> m]
    ELSE [out |-> c, cur |-> move_next(remove(m, l, c).m, l, c),
          m |-> remove(m, l, c).m]

(***************************************************************************)
(* The unwraps: where a call aborts because a link it takes for present is *)
(* None.                                                                   *)
(***************************************************************************)
\* new_entry.next.unwrap(), new_entry.next being what existing.next was
insert_after_priv_aborts(m, existing) == m.next[existing] = None

insert_after_aborts(m, existing, new) ==
    /\ acquire_for_insertion(m, new).ok
    /\ insert_after_priv_aborts(acquire_for_insertion(m, new).m, existing)

push_back_internal_aborts(m, l, new) ==
    /\ acquire_for_insertion(m, new).ok
    /\ back(m, l) # None
    /\ insert_after_priv_aborts(acquire_for_insertion(m, new).m, back(m, l))

\* entry.prev.unwrap(), when the entry is linked and not the only one
remove_internal_aborts(m, l, data) ==
    /\ m.next[data] # None
    /\ m.next[data] # data
    /\ m.prev[data] = None

pop_front_aborts(m, l) ==
    m.head[l] # None /\ remove_internal_aborts(m, l, m.head[l])

\* links.next.unwrap(), when the cursor is on an entry and head is present
move_next_aborts(m, l, c) ==
    c # None /\ m.head[l] # None /\ m.next[c] = None

remove_current_aborts(m, l, c) ==
    c # None /\ (move_next_aborts(m, l, c) \/ remove_internal_aborts(m, l, c))

\* CursorMut::remove_current: the cursor moves on first, then the entry goes.
remove_current(m, l, c) ==
    IF c = None
    THEN [out |-> None, cur |-> c, m |-> m]
    ELSE [out |-> c, cur |-> move_next(m, l, c), m |-> remove(m, l, c).m]

(***************************************************************************)
(* Iterator: two cursors, one from the front, one from the back.  A walk   *)
(* is cut after NumElems + 2 elements: a chain that does not close on head *)
(* would be walked for ever.                                               *)
(***************************************************************************)
RECURSIVE IterNext(_, _, _, _)
IterNext(m, l, c, fuel) ==
    IF c = None \/ fuel = 0
    THEN <<>>
    ELSE <<c>> \o IterNext(m, l, move_next(m, l, c), fuel - 1)

RECURSIVE IterNextBack(_, _, _, _)
IterNextBack(m, l, c, fuel) ==
    IF c = None \/ fuel = 0
    THEN <<>>
    ELSE <<c>> \o IterNextBack(m, l, move_prev(m, l, c), fuel - 1)

\* list.iter() consumed forwards, and list.iter().rev().
FwdOf(m, l) == IterNext(m, l, front(m, l), NumElems + 2)
BwdOf(m, l) == IterNextBack(m, l, back(m, l), NumElems + 2)

Fwd(l) == FwdOf(Mem, l)
Bwd(l) == BwdOf(Mem, l)

OnList(l, x) == x \in Range(Fwd(l))
Linked(x) == \E l \in Lists : OnList(l, x)

(***************************************************************************)
(* The last completed call: its name, its boolean result (for a call that  *)
(* returns an Option: whether it is Some) and the pointer it returned.     *)
(***************************************************************************)
NoCall == [op |-> "none", ok |-> FALSE, out |-> None, count |-> 0]

Called(op, ok, out) == [op |-> op, ok |-> ok, out |-> out, count |-> 0]

Commit(m2, op, ok, out) ==
    /\ head' = m2.head
    /\ next' = m2.next
    /\ prev' = m2.prev
    /\ inserted' = m2.inserted
    /\ last' = Called(op, ok, out)

(***************************************************************************)
(* The calls on a RawList.  A list borrowed by a CursorMut takes no other  *)
(* call; insert_after and remove are called within their documented        *)
(* preconditions.                                                          *)
(***************************************************************************)
DoPushBack(l, x) ==
    LET r == push_back(Mem, l, x)
    IN  Commit(r.m, "push_back", r.ok, None)

DoPushFront(l, x) ==
    LET r == push_front(Mem, l, x)
    IN  Commit(r.m, "push_front", r.ok, None)

DoInsertAfter(existing, x) ==
    LET r == insert_after(Mem, existing, x)
    IN  Commit(r.m, "insert_after", r.ok, None)

DoRemove(l, x) ==
    LET r == remove(Mem, l, x)
    IN  Commit(r.m, "remove", r.ok, None)

DoPopFront(l) ==
    LET r == pop_front(Mem, l)
    IN  Commit(r.m, "pop_front", r.out # None, r.out)

DoRemoveCurrent(l) ==
    LET r == remove_current(Mem, l, cur[l])
    IN  /\ Commit(r.m, "remove_current", r.out # None, r.out)
        /\ cur' = [cur EXCEPT ![l] = r.cur]
        /\ UNCHANGED <<active, iter>>

\* insert_after: "existing points to a valid entry that is on the list".
InsertAfterPre(l, existing) == OnList(l, existing)

\* remove: "data is either on this list or in no list".
RemovePre(l, x) == OnList(l, x) \/ ~Linked(x)

PushBack(l, x) ==
    /\ ~active[l]
    /\ DoPushBack(l, x)
    /\ UNCHANGED <<cursorVars, hist, facadeVars, threadVars>>

PushFront(l, x) ==
    /\ ~active[l]
    /\ DoPushFront(l, x)
    /\ UNCHANGED <<cursorVars, hist, facadeVars, threadVars>>

InsertAfter(l, existing, x) ==
    /\ ~active[l]
    /\ InsertAfterPre(l, existing)
    /\ DoInsertAfter(existing, x)
    /\ UNCHANGED <<cursorVars, hist, facadeVars, threadVars>>

Remove(l, x) ==
    /\ ~active[l]
    /\ RemovePre(l, x)
    /\ DoRemove(l, x)
    /\ UNCHANGED <<cursorVars, hist, facadeVars, threadVars>>

PopFront(l) ==
    /\ ~active[l]
    /\ DoPopFront(l)
    /\ UNCHANGED <<cursorVars, hist, facadeVars, threadVars>>

CursorFrontMut(l) ==
    /\ ~active[l]
    /\ active' = [active EXCEPT ![l] = TRUE]
    /\ cur' = [cur EXCEPT ![l] = front(Mem, l)]
    /\ last' = Called("cursor_front_mut", front(Mem, l) # None, front(Mem, l))
    /\ UNCHANGED <<listVars, iter, hist, facadeVars, threadVars>>

CursorMoveNext(l) ==
    /\ active[l]
    /\ cur' = [cur EXCEPT ![l] = move_next(Mem, l, cur[l])]
    /\ last' = Called("move_next", move_next(Mem, l, cur[l]) # None,
                      move_next(Mem, l, cur[l]))
    /\ UNCHANGED <<listVars, active, iter, hist, facadeVars, threadVars>>

CursorRemoveCurrent(l) ==
    /\ active[l]
    /\ DoRemoveCurrent(l)
    /\ UNCHANGED <<hist, facadeVars, threadVars>>

\* The CursorMut goes out of scope: the borrow of the list ends.
CursorEnd(l) ==
    /\ active[l]
    /\ active' = [active EXCEPT ![l] = FALSE]
    /\ cur' = [cur EXCEPT ![l] = None]
    /\ last' = Called("cursor_end", FALSE, None)
    /\ UNCHANGED <<listVars, iter, hist, facadeVars, threadVars>>

NewHist == [kind |-> "new", seq |-> <<>>]

\* No Iterator over the list.
NoIter == [on |-> FALSE, front |-> None, back |-> None, seen |-> <<>>]

\* The call a thread is in: its name, the element x it is about, the entry
\* ex after which x goes, its result ok, whether the guard of x was clear
\* when the call began (free), and the thread that held the guard when the
\* call lost it (by).
NoThreadCall == [op |-> "none", x |-> None, ex |-> None, ok |-> FALSE,
                 free |-> FALSE, by |-> 0]

Init ==
    /\ head = [l \in Lists |-> None]
    /\ next = [e \in Elems |-> None]
    /\ prev = [e \in Elems |-> None]
    /\ inserted = [e \in Elems |-> FALSE]
    /\ active = [l \in Lists |-> FALSE]
    /\ cur = [l \in Lists |-> None]
    /\ iter = [l \in Lists |-> NoIter]
    /\ last = NoCall
    /\ hist = [l \in Lists |-> NewHist]
    /\ strong = [e \in Elems |-> 1]
    /\ caller = [e \in Elems |-> 1]
    /\ owned = [l \in Lists |-> [e \in Elems |-> 0]]
    /\ pc = [l \in Lists |-> "idle"]
    /\ call = [l \in Lists |-> NoThreadCall]
    /\ wrote = [l \in Lists |-> FALSE]

\* The calls of RawList itself.
NextCalls ==
    \/ \E l \in Lists, x \in Elems : PushBack(l, x)
    \/ \E l \in Lists, x \in Elems : PushFront(l, x)
    \/ \E l \in Lists, existing \in Elems, x \in Elems :
            InsertAfter(l, existing, x)
    \/ \E l \in Lists, x \in Elems : Remove(l, x)
    \/ \E l \in Lists : PopFront(l)

SpecCalls == Init /\ [][NextCalls]_vars

\* The calls of RawList and of the CursorMut it hands out.
Next ==
    \/ NextCalls
    \/ \E l \in Lists : CursorFrontMut(l)
    \/ \E l \in Lists : CursorMoveNext(l)
    \/ \E l \in Lists : CursorRemoveCurrent(l)
    \/ \E l \in Lists : CursorEnd(l)

Spec == Init /\ [][Next]_vars

\* Lists built by pushes, and the CursorMut at work on them.
NextCursor ==
    \/ \E l \in Lists, x \in Elems : PushBack(l, x)
    \/ \E l \in Lists, x \in Elems : PushFront(l, x)
    \/ \E l \in Lists : CursorFrontMut(l)
    \/ \E l \in Lists : CursorMoveNext(l)
    \/ \E l \in Lists : CursorRemoveCurrent(l)
    \/ \E l \in Lists : CursorEnd(l)

SpecCursor == Init /\ [][NextCursor]_vars

(***************************************************************************)
(* A CursorMut walked both ways and peeked from.                           *)
(***************************************************************************)
CursorMovePrev(l) ==
    /\ active[l]
    /\ cur' = [cur EXCEPT ![l] = move_prev(Mem, l, cur[l])]
    /\ last' = Called("move_prev", move_prev(Mem, l, cur[l]) # None,
                      move_prev(Mem, l, cur[l]))
    /\ UNCHANGED <<listVars, active, iter, hist, facadeVars, threadVars>>

CursorPeekNext(l) ==
    /\ active[l]
    /\ LET r == peek_next(Mem, l, cur[l])
       IN  /\ Commit(r.m, "peek_next", r.out # None, r.out)
           /\ cur' = [cur EXCEPT ![l] = r.cur]
    /\ UNCHANGED <<active, iter, hist, facadeVars, threadVars>>

CursorPeekPrev(l) ==
    /\ active[l]
    /\ LET r == peek_prev(Mem, l, cur[l])
       IN  /\ Commit(r.m, "peek_prev", r.out # None, r.out)
           /\ cur' = [cur EXCEPT ![l] = r.cur]
    /\ UNCHANGED <<active, iter, hist, facadeVars, threadVars>>

NextWalk ==
    \/ \E l \in Lists, x \in Elems : PushBack(l, x)
    \/ \E l \in Lists : CursorFrontMut(l)
    \/ \E l \in Lists : CursorMoveNext(l)
    \/ \E l \in Lists : CursorMovePrev(l)
    \/ \E l \in Lists : CursorPeekNext(l)
    \/ \E l \in Lists : CursorPeekPrev(l)
    \/ \E l \in Lists : CursorRemoveCurrent(l)
    \/ \E l \in Lists : CursorEnd(l)

SpecWalk == Init /\ [][NextWalk]_vars

(***************************************************************************)
(* Lists built from empty by pushes alone, with the order of the pushes    *)
(* that took an element recorded: hist[l].kind says whether list l was     *)
(* built, since it was last empty, only by push_back ("back"), only by     *)
(* push_front ("front") or otherwise ("mixed"); hist[l].seq holds the      *)
(* pushed elements in the order of the calls.                              *)
(***************************************************************************)
HistAfter(l, op, x, wasFree, m2) ==
    IF m2.head[l] = None THEN NewHist
    ELSE IF op = "pop_front" THEN [kind |-> "mixed", seq |-> <<>>]
    ELSE IF ~wasFree THEN hist[l]
    ELSE IF op = "push_back" /\ hist[l].kind \in {"new", "back"}
    THEN [kind |-> "back", seq |-> Append(hist[l].seq, x)]
    ELSE IF op = "push_front" /\ hist[l].kind \in {"new", "front"}
    THEN [kind |-> "front", seq |-> Append(hist[l].seq, x)]
    ELSE [kind |-> "mixed", seq |-> <<>>]

BuildPushBack(l, x) ==
    /\ DoPushBack(l, x)
    /\ hist' = [hist EXCEPT
                  ![l] = HistAfter(l, "push_back", x, ~Linked(x), MemNext)]
    /\ UNCHANGED <<cursorVars, facadeVars, threadVars>>

BuildPushFront(l, x) ==
    /\ DoPushFront(l, x)
    /\ hist' = [hist EXCEPT
                  ![l] = HistAfter(l, "push_front", x, ~Linked(x), MemNext)]
    /\ UNCHANGED <<cursorVars, facadeVars, threadVars>>

BuildPopFront(l) ==
    /\ DoPopFront(l)
    /\ hist' = [hist EXCEPT
                  ![l] = HistAfter(l, "pop_front", None, FALSE, MemNext)]
    /\ UNCHANGED <<cursorVars, facadeVars, threadVars>>

NextBuild ==
    \/ \E l \in Lists, x \in Elems : BuildPushBack(l, x)
    \/ \E l \in Lists, x \in Elems : BuildPushFront(l, x)
    \/ \E l \in Lists : BuildPopFront(l)

SpecBuild == Init /\ [][NextBuild]_vars

(***************************************************************************)
(* Elements taken off a list and inserted again: hist records the element  *)
(* that the last successful remove or pop_front took, at the list it took  *)
(* it off.                                                                 *)
(***************************************************************************)
Taken(x) == [kind |-> "taken", seq |-> <<x>>]

TakenOff(l, x) == [k \in Lists |-> IF k = l THEN Taken(x) ELSE NewHist]

TakeRemove(l, x) ==
    /\ OnList(l, x)
    /\ DoRemove(l, x)
    /\ hist' = TakenOff(l, x)
    /\ UNCHANGED <<cursorVars, facadeVars, threadVars>>

TakePopFront(l) ==
    /\ ~is_empty(Mem, l)
    /\ DoPopFront(l)
    /\ hist' = TakenOff(l, head[l])
    /\ UNCHANGED <<cursorVars, facadeVars, threadVars>>

NextReuse ==
    \/ \E l \in Lists, x \in Elems : PushBack(l, x)
    \/ \E l \in Lists, x \in Elems : PushFront(l, x)
    \/ \E l \in Lists, existing \in Elems, x \in Elems :
            InsertAfter(l, existing, x)
    \/ \E l \in Lists, x \in Elems : TakeRemove(l, x)
    \/ \E l \in Lists : TakePopFront(l)

SpecReuse == Init /\ [][NextReuse]_vars

(***************************************************************************)
(* The calls run side by side with the sequence the tests compare a list   *)
(* with (assert_list_contents): hist[l].seq is what list l is expected to  *)
(* hold.  It is updated from the call, its arguments and its result alone, *)
(* never from the links.                                                   *)
(***************************************************************************)
Expected(l) == hist[l].seq

\* The expected sequence after a call on list l that returned ok.
ExpectPushBack(l, x, ok) ==
    IF ok THEN Append(Expected(l), x) ELSE Expected(l)

ExpectPushFront(l, x, ok) ==
    IF ok THEN <<x>> \o Expected(l) ELSE Expected(l)

ExpectInsertAfter(l, existing, x, ok) ==
    IF ok THEN Splice(Expected(l), IndexOf(Expected(l), existing), x)
    ELSE Expected(l)

ExpectRemove(l, x, ok) ==
    IF ok THEN Excise(Expected(l), IndexOf(Expected(l), x)) ELSE Expected(l)

ExpectPopFront(l, out) ==
    IF out # None THEN Tail(Expected(l)) ELSE Expected(l)

Expect(l, seq) == hist' = [hist EXCEPT ![l].seq = seq]

AbsPushBack(l, x) ==
    /\ ~active[l]
    /\ DoPushBack(l, x)
    /\ Expect(l, ExpectPushBack(l, x, last'.ok))
    /\ UNCHANGED <<cursorVars, facadeVars, threadVars>>

AbsPushFront(l, x) ==
    /\ ~active[l]
    /\ DoPushFront(l, x)
    /\ Expect(l, ExpectPushFront(l, x, last'.ok))
    /\ UNCHANGED <<cursorVars, facadeVars, threadVars>>

AbsInsertAfter(l, existing, x) ==
    /\ ~active[l]
    /\ InsertAfterPre(l, existing)
    /\ DoInsertAfter(existing, x)
    /\ Expect(l, ExpectInsertAfter(l, existing, x, last'.ok))
    /\ UNCHANGED <<cursorVars, facadeVars, threadVars>>

AbsRemove(l, x) ==
    /\ ~active[l]
    /\ RemovePre(l, x)
    /\ DoRemove(l, x)
    /\ Expect(l, ExpectRemove(l, x, last'.ok))
    /\ UNCHANGED <<cursorVars, facadeVars, threadVars>>

AbsPopFront(l) ==
    /\ ~active[l]
    /\ DoPopFront(l)
    /\ Expect(l, ExpectPopFront(l, last'.out))
    /\ UNCHANGED <<cursorVars, facadeVars, threadVars>>

AbsRemoveCurrent(l) ==
    /\ active[l]
    /\ DoRemoveCurrent(l)
    /\ Expect(l, ExpectRemove(l, last'.out, last'.out # None))
    /\ UNCHANGED <<facadeVars, threadVars>>

NextAbs ==
    \/ \E l \in Lists, x \in Elems : AbsPushBack(l, x)
    \/ \E l \in Lists, x \in Elems : AbsPushFront(l, x)
    \/ \E l \in Lists, existing \in Elems, x \in Elems :
            AbsInsertAfter(l, existing, x)
    \/ \E l \in Lists, x \in Elems : AbsRemove(l, x)
    \/ \E l \in Lists : AbsPopFront(l)
    \/ \E l \in Lists : CursorFrontMut(l)
    \/ \E l \in Lists : CursorMoveNext(l)
    \/ \E l \in Lists : AbsRemoveCurrent(l)
    \/ \E l \in Lists : CursorEnd(l)

SpecAbs == Init /\ [][NextAbs]_vars

(***************************************************************************)
(* Iterator: list.iter() borrows the list and holds cursor_front, started  *)
(* on the front, and cursor_back, started on the back.  iter[l].seen holds *)
(* what its next and next_back calls have yielded, in the order of the     *)
(* calls.                                                                  *)
(***************************************************************************)
\* RawList::iter
Iterator_new(m, l) ==
    [on |-> TRUE, front |-> front(m, l), back |-> back(m, l), seen |-> <<>>]

\* Iterator::next: the front cursor's element, and the cursor moves on.
Iterator_next(m, l, it) ==
    IF it.front = None
    THEN [out |-> None, it |-> it]
    ELSE [out |-> it.front,
          it |-> [it EXCEPT !.front = move_next(m, l, it.front),
                            !.seen = Append(it.seen, it.front)]]

\* Iterator::next_back: the back cursor's element, and the cursor moves back.
Iterator_next_back(m, l, it) ==
    IF it.back = None
    THEN [out |-> None, it |-> it]
    ELSE [out |-> it.back,
          it |-> [it EXCEPT !.back = move_prev(m, l, it.back),
                            !.seen = Append(it.seen, it.back)]]

\* Iterator::next called k times on the iterator it.
RECURSIVE NextCallsOf(_, _, _, _)
NextCallsOf(m, l, it, k) ==
    IF k = 0 THEN it
    ELSE NextCallsOf(m, l, Iterator_next(m, l, it).it, k - 1)

Iter(l) ==
    /\ ~active[l]
    /\ active' = [active EXCEPT ![l] = TRUE]
    /\ iter' = [iter EXCEPT ![l] = Iterator_new(Mem, l)]
    /\ last' = Called("iter", FALSE, None)
    /\ UNCHANGED <<listVars, cur, hist, facadeVars, threadVars>>

IterStepNext(l) ==
    /\ iter[l].on
    /\ LET r == Iterator_next(Mem, l, iter[l])
       IN  /\ iter' = [iter EXCEPT ![l] = r.it]
           /\ last' = Called("next", r.out # None, r.out)
    /\ UNCHANGED <<listVars, active, cur, hist, facadeVars, threadVars>>

IterStepNextBack(l) ==
    /\ iter[l].on
    /\ LET r == Iterator_next_back(Mem, l, iter[l])
       IN  /\ iter' = [iter EXCEPT ![l] = r.it]
           /\ last' = Called("next_back", r.out # None, r.out)
    /\ UNCHANGED <<listVars, active, cur, hist, facadeVars, threadVars>>

\* The Iterator goes out of scope: the borrow of the list ends.
IterEnd(l) ==
    /\ iter[l].on
    /\ active' = [active EXCEPT ![l] = FALSE]
    /\ iter' = [iter EXCEPT ![l] = NoIter]
    /\ last' = Called("iter_end", FALSE, None)
    /\ UNCHANGED <<listVars, cur, hist, facadeVars, threadVars>>

\* The calls of RawList and of the Iterator it hands out.
NextIter ==
    \/ NextCalls
    \/ \E l \in Lists : Iter(l)
    \/ \E l \in Lists : IterStepNext(l)
    \/ \E l \in Lists : IterStepNextBack(l)
    \/ \E l \in Lists : IterEnd(l)

SpecIter == Init /\ [][NextIter]_vars

(***************************************************************************)
(* Threads.  Every list is behind its own lock, so one thread at a time    *)
(* works on list t: thread t.  Its calls go one memory access at a time,   *)
(* interleaved with the other threads'; the guard bit is the only memory   *)
(* two threads touch.                                                      *)
(***************************************************************************)
Inserts == {"push_back", "push_front", "insert_after"}

InCall(t) == pc[t] \notin {"idle", "done"}

\* Thread u has the guard of x: x is on its list or it is linking x.
HasGuard(u, x) ==
    \/ OnList(u, x)
    \/ /\ call[u].op \in Inserts
       /\ call[u].x = x
       /\ pc[u] \in {"back", "w1", "w2", "w3", "w4", "w5", "e1", "e2", "e3"}
    \/ /\ call[u].op = "pop_front"
       /\ call[u].x = x
       /\ pc[u] \in {"r1", "r2", "r3", "r4", "r5", "r6"}

Begin(t, op, x, ex, at) ==
    /\ ~InCall(t)
    /\ pc' = [pc EXCEPT ![t] = at]
    /\ call' = [call EXCEPT ![t] = [op |-> op, x |-> x, ex |-> ex,
                                    ok |-> FALSE, free |-> ~inserted[x],
                                    by |-> 0]]
    /\ wrote' = [wrote EXCEPT ![t] = FALSE]
    /\ UNCHANGED <<listVars, cursorVars, last, hist, facadeVars>>

ConcCallPushBack(t, x) ==
    /\ x \in Elems
    /\ Begin(t, "push_back", x, None, "cas")

ConcCallPushFront(t, x) ==
    /\ x \in Elems
    /\ Begin(t, "push_front", x, None, "cas")

ConcCallInsertAfter(t, existing, x) ==
    /\ InsertAfterPre(t, existing)
    /\ Begin(t, "insert_after", x, existing, "cas")

\* pop_front_internal: let head = self.head?
ConcCallPopFront(t) ==
    /\ head[t] # None
    /\ Begin(t, "pop_front", head[t], None, "r0")

Goto(t, at) == pc' = [pc EXCEPT ![t] = at]

Return(t, ok) ==
    /\ pc' = [pc EXCEPT ![t] = "done"]
    /\ call' = [call EXCEPT ![t].ok = ok]

Writes(t) == wrote' = [wrote EXCEPT ![t] = TRUE]

\* Variant: the guard is judged by what it was when the call began.
ConcAcquire_staleLoad(t) ==
    /\ pc[t] = "cas"
    /\ IF call[t].free
       THEN /\ inserted' = [inserted EXCEPT ![call[t].x] = TRUE]
            /\ Goto(t, IF call[t].op = "insert_after" THEN "w1" ELSE "back")
            /\ UNCHANGED call
       ELSE /\ Return(t, FALSE)
            /\ UNCHANGED inserted
    /\ UNCHANGED <<head, next, prev, wrote, cursorVars, last, hist, facadeVars>>

\* links.acquire_for_insertion(): the compare-and-swap, one step.
ConcAcquire(t) ==
    /\ pc[t] = "cas"
    /\ LET a == acquire_for_insertion(Mem, call[t].x)
       IN  IF a.ok
           THEN /\ inserted' = a.m.inserted
                /\ Goto(t, IF call[t].op = "insert_after" THEN "w1"
                           ELSE "back")
                /\ UNCHANGED call
           ELSE /\ pc' = [pc EXCEPT ![t] = "done"]
                /\ call' = [call EXCEPT
                              ![t].ok = FALSE,
                              ![t].by = CHOOSE u \in Lists \cup {0} :
                                            \/ /\ u \in Lists \ {t}
                                               /\ HasGuard(u, call[t].x)
                                            \/ /\ u = 0
                                               /\ \A v \in Lists \ {t} :
                                                    ~HasGuard(v, call[t].x)]
                /\ UNCHANGED inserted
    /\ UNCHANGED <<head, next, prev, wrote, cursorVars, last, hist, facadeVars>>

\* match self.back()
ConcBack(t) ==
    /\ pc[t] = "back"
    /\ IF back(Mem, t) # None
       THEN /\ call' = [call EXCEPT ![t].ex = back(Mem, t)]
            /\ Goto(t, "w1")
       ELSE /\ Goto(t, "e1")
            /\ UNCHANGED call
    /\ UNCHANGED <<listVars, wrote, cursorVars, last, hist, facadeVars>>

\* new_entry.next = existing_links.next
ConcSplice1(t) ==
    /\ pc[t] = "w1"
    /\ next' = [next EXCEPT ![call[t].x] = next[call[t].ex]]
    /\ Goto(t, "w2")
    /\ Writes(t)
    /\ UNCHANGED <<head, prev, inserted, call, cursorVars, last, hist, facadeVars>>

\* existing_links.next = new_ptr
ConcSplice2(t) ==
    /\ pc[t] = "w2"
    /\ next' = [next EXCEPT ![call[t].ex] = call[t].x]
    /\ Goto(t, "w3")
    /\ Writes(t)
    /\ UNCHANGED <<head, prev, inserted, call, cursorVars, last, hist, facadeVars>>

\* new_entry.prev = Some(existing)
ConcSplice3(t) ==
    /\ pc[t] = "w3"
    /\ prev' = [prev EXCEPT ![call[t].x] = call[t].ex]
    /\ Goto(t, "w4")
    /\ Writes(t)
    /\ UNCHANGED <<head, next, inserted, call, cursorVars, last, hist, facadeVars>>

\* next_links.prev = new_ptr
ConcSplice4(t) ==
    /\ pc[t] = "w4"
    /\ prev' = [prev EXCEPT ![next[call[t].x]] = call[t].x]
    /\ Writes(t)
    /\ IF call[t].op = "push_front"
       THEN Goto(t, "w5") /\ UNCHANGED call
       ELSE Return(t, TRUE)
    /\ UNCHANGED <<head, next, inserted, cursorVars, last, hist, facadeVars>>

\* if front { self.head = new_ptr }
ConcSetHead(t) ==
    /\ pc[t] = "w5"
    /\ head' = [head EXCEPT ![t] = call[t].x]
    /\ Writes(t)
    /\ Return(t, TRUE)
    /\ UNCHANGED <<next, prev, inserted, cursorVars, last, hist, facadeVars>>

\* None => self.head = new_ptr
ConcEmpty1(t) ==
    /\ pc[t] = "e1"
    /\ head' = [head EXCEPT ![t] = call[t].x]
    /\ Goto(t, "e2")
    /\ Writes(t)
    /\ UNCHANGED <<next, prev, inserted, call, cursorVars, last, hist, facadeVars>>

\* new_entry.next = new_ptr
ConcEmpty2(t) ==
    /\ pc[t] = "e2"
    /\ next' = [next EXCEPT ![call[t].x] = call[t].x]
    /\ Goto(t, "e3")
    /\ Writes(t)
    /\ UNCHANGED <<head, prev, inserted, call, cursorVars, last, hist, facadeVars>>

\* new_entry.prev = new_ptr
ConcEmpty3(t) ==
    /\ pc[t] = "e3"
    /\ prev' = [prev EXCEPT ![call[t].x] = call[t].x]
    /\ Writes(t)
    /\ Return(t, TRUE)
    /\ UNCHANGED <<head, next, inserted, cursorVars, last, hist, facadeVars>>

\* remove_internal: let next = entry.next, or return false
ConcRemoveRead(t) ==
    /\ pc[t] = "r0"
    /\ IF next[call[t].x] = None
       THEN Return(t, FALSE)
       ELSE /\ call' = [call EXCEPT ![t].ex = next[call[t].x]]
            /\ Goto(t, "r1")
    /\ UNCHANGED <<listVars, wrote, cursorVars, last, hist, facadeVars>>

\* the only element: self.head = None; the head: self.head = Some(next)
ConcRemoveHead(t) ==
    /\ pc[t] = "r1"
    /\ IF call[t].x = call[t].ex
       THEN /\ head' = [head EXCEPT ![t] = None]
            /\ Goto(t, "r4")
       ELSE /\ head' = IF head[t] # None /\ call[t].x = head[t]
                       THEN [head EXCEPT ![t] = call[t].ex]
                       ELSE head
            /\ Goto(t, "r2")
    /\ Writes(t)
    /\ UNCHANGED <<next, prev, inserted, call, cursorVars, last, hist, facadeVars>>

\* prev.next = entry.next
ConcRemovePrevNext(t) ==
    /\ pc[t] = "r2"
    /\ next' = [next EXCEPT ![prev[call[t].x]] = next[call[t].x]]
    /\ Goto(t, "r3")
    /\ Writes(t)
    /\ UNCHANGED <<head, prev, inserted, call, cursorVars, last, hist, facadeVars>>

\* next.prev = entry.prev
ConcRemoveNextPrev(t) ==
    /\ pc[t] = "r3"
    /\ prev' = [prev EXCEPT ![call[t].ex] = prev[call[t].x]]
    /\ Goto(t, "r4")
    /\ Writes(t)
    /\ UNCHANGED <<head, next, inserted, call, cursorVars, last, hist, facadeVars>>

\* Variant: the guard is given back while entry.prev is still set.
ConcRemoveClearNext_releasesEarly(t) ==
    /\ pc[t] = "r4"
    /\ next' = [next EXCEPT ![call[t].x] = None]
    /\ inserted' = release_after_removal(Mem, call[t].x).inserted
    /\ Goto(t, "r5")
    /\ Writes(t)
    /\ UNCHANGED <<head, prev, call, cursorVars, last, hist, facadeVars>>

\* entry.next = None
ConcRemoveClearNext(t) ==
    /\ pc[t] = "r4"
    /\ next' = [next EXCEPT ![call[t].x] = None]
    /\ Goto(t, "r5")
    /\ Writes(t)
    /\ UNCHANGED <<head, prev, inserted, call, cursorVars, last, hist, facadeVars>>

\* entry.prev = None
ConcRemoveClearPrev(t) ==
    /\ pc[t] = "r5"
    /\ prev' = [prev EXCEPT ![call[t].x] = None]
    /\ Goto(t, "r6")
    /\ Writes(t)
    /\ UNCHANGED <<head, next, inserted, call, cursorVars, last, hist, facadeVars>>

\* links.release_after_removal()
ConcRelease(t) ==
    /\ pc[t] = "r6"
    /\ inserted' = release_after_removal(Mem, call[t].x).inserted
    /\ Return(t, TRUE)
    /\ UNCHANGED <<head, next, prev, wrote, cursorVars, last, hist, facadeVars>>

NextConc ==
    \/ \E t \in Lists, x \in Elems : ConcCallPushBack(t, x)
    \/ \E t \in Lists, x \in Elems : ConcCallPushFront(t, x)
    \/ \E t \in Lists, existing \in Elems, x \in Elems :
            ConcCallInsertAfter(t, existing, x)
    \/ \E t \in Lists : ConcCallPopFront(t)
    \/ \E t \in Lists : ConcAcquire(t)
    \/ \E t \in Lists : ConcBack(t)
    \/ \E t \in Lists : ConcSplice1(t)
    \/ \E t \in Lists : ConcSplice2(t)
    \/ \E t \in Lists : ConcSplice3(t)
    \/ \E t \in Lists : ConcSplice4(t)
    \/ \E t \in Lists : ConcSetHead(t)
    \/ \E t \in Lists : ConcEmpty1(t)
    \/ \E t \in Lists : ConcEmpty2(t)
    \/ \E t \in Lists : ConcEmpty3(t)
    \/ \E t \in Lists : ConcRemoveRead(t)
    \/ \E t \in Lists : ConcRemoveHead(t)
    \/ \E t \in Lists : ConcRemovePrevNext(t)
    \/ \E t \in Lists : ConcRemoveNextPrev(t)
    \/ \E t \in Lists : ConcRemoveClearNext(t)
    \/ \E t \in Lists : ConcRemoveClearPrev(t)
    \/ \E t \in Lists : ConcRelease(t)

SpecConc == Init /\ [][NextConc]_vars

(***************************************************************************)
(* The ownership facade, for shared reference-counted handles (Arc).       *)
(* strong[x] is the strong count of element x (0: freed); caller[x] counts *)
(* the handles outside the lists; owned[l][x] counts the raw identities    *)
(* that the calls of List l made with into_pointer and have not turned     *)
(* back into a handle.                                                     *)
(***************************************************************************)
Handles == [strong |-> strong, caller |-> caller, owned |-> owned]

\* Arc::into_raw: the handle is gone, its count stays.
into_pointer(h, l, x) ==
    [h EXCEPT !.caller[x] = @ - 1, !.owned[l][x] = @ + 1]

\* Arc::from_raw: a handle again.
from_pointer(h, l, x) ==
    [h EXCEPT !.caller[x] = @ + 1, !.owned[l][x] = @ - 1]

\* Drop of an Arc: one handle less, one count less.
drop_handle(h, x) ==
    [h EXCEPT !.caller[x] = @ - 1, !.strong[x] = @ - 1]

\* Variant: a pushed handle that is turned down is forgotten, not rebuilt.
List_push_back_leaks(m, h, l, x) ==
    [ok |-> push_back(m, l, x).ok, m |-> push_back(m, l, x).m,
     h |-> into_pointer(h, l, x)]

List_push_back(m, h, l, x) ==
    LET h1 == into_pointer(h, l, x)
        r == push_back(m, l, x)
    IN  IF ~r.ok
        THEN [ok |-> FALSE, m |-> r.m,
              h |-> drop_handle(from_pointer(h1, l, x), x)]
        ELSE [ok |-> TRUE, m |-> r.m, h |-> h1]

List_push_front(m, h, l, x) ==
    LET h1 == into_pointer(h, l, x)
        r == push_front(m, l, x)
    IN  IF ~r.ok
        THEN [ok |-> FALSE, m |-> r.m,
              h |-> drop_handle(from_pointer(h1, l, x), x)]
        ELSE [ok |-> TRUE, m |-> r.m, h |-> h1]

List_insert_after(m, h, l, existing, x) ==
    LET h1 == into_pointer(h, l, x)
        r == insert_after(m, existing, x)
    IN  IF ~r.ok
        THEN [ok |-> FALSE, m |-> r.m,
              h |-> drop_handle(from_pointer(h1, l, x), x)]
        ELSE [ok |-> TRUE, m |-> r.m, h |-> h1]

\* Variant: a handle is rebuilt whether or not the entry was removed.
List_remove_alwaysSome(m, h, l, x) ==
    [out |-> x, m |-> remove(m, l, x).m, h |-> from_pointer(h, l, x)]

List_remove(m, h, l, x) ==
    LET r == remove(m, l, x)
    IN  IF r.ok
        THEN [out |-> x, m |-> r.m, h |-> from_pointer(h, l, x)]
        ELSE [out |-> None, m |-> r.m, h |-> h]

\* Variant: the popped identity is returned without its handle.
List_pop_front_forgets(m, h, l) ==
    [out |-> pop_front(m, l).out, m |-> pop_front(m, l).m, h |-> h]

List_pop_front(m, h, l) ==
    LET r == pop_front(m, l)
    IN  IF r.out = None
        THEN [out |-> None, m |-> r.m, h |-> h]
        ELSE [out |-> r.out, m |-> r.m, h |-> from_pointer(h, l, r.out)]

List_remove_current(m, h, l, c) ==
    LET r == remove_current(m, l, c)
    IN  IF r.out = None
        THEN [out |-> None, cur |-> r.cur, m |-> r.m, h |-> h]
        ELSE [out |-> r.out, cur |-> r.cur, m |-> r.m,
              h |-> from_pointer(h, l, r.out)]

\* Drop for List: while self.pop_front().is_some() {}, every popped handle
\* dropped where it is returned.  pops counts the pops that returned an
\* element; -1 stands for a loop that has not ended after NumElems + 1 of them.
RECURSIVE drop_loop(_, _, _, _)
drop_loop(m, h, l, fuel) ==
    LET r == List_pop_front(m, h, l)
    IN  IF r.out = None
        THEN [pops |-> 0, m |-> r.m, h |-> r.h]
        ELSE IF fuel = 0
        THEN [pops |-> -1, m |-> r.m, h |-> r.h]
        ELSE LET rest == drop_loop(r.m, drop_handle(r.h, r.out), l, fuel - 1)
             IN  [rest EXCEPT !.pops = IF @ < 0 THEN @ ELSE @ + 1]

List_drop(m, h, l) == drop_loop(m, h, l, NumElems + 1)

CommitList(r, op, ok, out, n) ==
    /\ head' = r.m.head
    /\ next' = r.m.next
    /\ prev' = r.m.prev
    /\ inserted' = r.m.inserted
    /\ strong' = r.h.strong
    /\ caller' = r.h.caller
    /\ owned' = r.h.owned
    /\ last' = [op |-> op, ok |-> ok, out |-> out, count |-> n]

(***************************************************************************)
(* The calls on a List.  A call that takes a handle needs the caller to    *)
(* hold one; insert_after borrows one handle and takes another.            *)
(***************************************************************************)
ListPushBack(l, x) ==
    /\ ~active[l]
    /\ caller[x] >= 1
    /\ LET r == List_push_back(Mem, Handles, l, x)
       IN  CommitList(r, "List.push_back", r.ok, None, 0)
    /\ UNCHANGED <<cursorVars, hist, threadVars>>

ListPushFront(l, x) ==
    /\ ~active[l]
    /\ caller[x] >= 1
    /\ LET r == List_push_front(Mem, Handles, l, x)
       IN  CommitList(r, "List.push_front", r.ok, None, 0)
    /\ UNCHANGED <<cursorVars, hist, threadVars>>

ListInsertAfter(l, existing, x) ==
    /\ ~active[l]
    /\ InsertAfterPre(l, existing)
    /\ caller[existing] >= 1
    /\ caller[x] >= (IF x = existing THEN 2 ELSE 1)
    /\ LET r == List_insert_after(Mem, Handles, l, existing, x)
       IN  CommitList(r, "List.insert_after", r.ok, None, 0)
    /\ UNCHANGED <<cursorVars, hist, threadVars>>

ListRemove(l, x) ==
    /\ ~active[l]
    /\ RemovePre(l, x)
    /\ caller[x] >= 1
    /\ LET r == List_remove(Mem, Handles, l, x)
       IN  CommitList(r, "List.remove", r.out # None, r.out, 0)
    /\ UNCHANGED <<cursorVars, hist, threadVars>>

ListPopFront(l) ==
    /\ ~active[l]
    /\ LET r == List_pop_front(Mem, Handles, l)
       IN  CommitList(r, "List.pop_front", r.out # None, r.out, 0)
    /\ UNCHANGED <<cursorVars, hist, threadVars>>

ListCursorFrontMut(l) ==
    /\ ~active[l]
    /\ active' = [active EXCEPT ![l] = TRUE]
    /\ cur' = [cur EXCEPT ![l] = front(Mem, l)]
    /\ last' = Called("List.cursor_front_mut", front(Mem, l) # None,
                      front(Mem, l))
    /\ UNCHANGED <<listVars, iter, hist, facadeVars, threadVars>>

ListCursorMoveNext(l) ==
    /\ active[l]
    /\ cur' = [cur EXCEPT ![l] = move_next(Mem, l, cur[l])]
    /\ last' = Called("List.move_next", move_next(Mem, l, cur[l]) # None,
                      move_next(Mem, l, cur[l]))
    /\ UNCHANGED <<listVars, active, iter, hist, facadeVars, threadVars>>

ListCursorRemoveCurrent(l) ==
    /\ active[l]
    /\ LET r == List_remove_current(Mem, Handles, l, cur[l])
       IN  /\ CommitList(r, "List.remove_current", r.out # None, r.out, 0)
           /\ cur' = [cur EXCEPT ![l] = r.cur]
    /\ UNCHANGED <<active, iter, hist, threadVars>>

ListCursorEnd(l) ==
    /\ active[l]
    /\ active' = [active EXCEPT ![l] = FALSE]
    /\ cur' = [cur EXCEPT ![l] = None]
    /\ last' = Called("List.cursor_end", FALSE, None)
    /\ UNCHANGED <<listVars, iter, hist, facadeVars, threadVars>>

\* The List goes out of scope; a new, empty List takes its place.
ListDrop(l) ==
    /\ ~active[l]
    /\ LET r == List_drop(Mem, Handles, l)
       IN  CommitList(r, "List.drop", r.pops >= 0, None, r.pops)
    /\ UNCHANGED <<cursorVars, hist, threadVars>>

\* The caller clones a handle it holds.
ArcClone(x) ==
    /\ caller[x] >= 1
    /\ strong[x] < MaxHandles
    /\ caller' = [caller EXCEPT ![x] = @ + 1]
    /\ strong' = [strong EXCEPT ![x] = @ + 1]
    /\ last' = Called("Arc.clone", FALSE, None)
    /\ UNCHANGED <<listVars, cursorVars, hist, owned, threadVars>>

\* The caller drops a handle it holds.
ArcDrop(x) ==
    /\ caller[x] >= 1
    /\ caller' = drop_handle(Handles, x).caller
    /\ strong' = drop_handle(Handles, x).strong
    /\ last' = Called("Arc.drop", FALSE, None)
    /\ UNCHANGED <<listVars, cursorVars, hist, owned, threadVars>>

\* A freed element is allocated anew, with new Links.
ArcNew(x) ==
    /\ strong[x] = 0
    /\ strong' = [strong EXCEPT ![x] = 1]
    /\ caller' = [caller EXCEPT ![x] = 1]
    /\ inserted' = [inserted EXCEPT ![x] = FALSE]
    /\ next' = [next EXCEPT ![x] = None]
    /\ prev' = [prev EXCEPT ![x] = None]
    /\ last' = Called("Arc.new", FALSE, None)
    /\ UNCHANGED <<head, cursorVars, hist, owned, threadVars>>

NextList ==
    \/ \E l \in Lists, x \in Elems : ListPushBack(l, x)
    \/ \E l \in Lists, x \in Elems : ListPushFront(l, x)
    \/ \E l \in Lists, existing \in Elems, x \in Elems :
            ListInsertAfter(l, existing, x)
    \/ \E l \in Lists, x \in Elems : ListRemove(l, x)
    \/ \E l \in Lists : ListPopFront(l)
    \/ \E l \in Lists : ListCursorFrontMut(l)
    \/ \E l \in Lists : ListCursorMoveNext(l)
    \/ \E l \in Lists : ListCursorRemoveCurrent(l)
    \/ \E l \in Lists : ListCursorEnd(l)
    \/ \E l \in Lists : ListDrop(l)
    \/ \E x \in Elems : ArcClone(x)
    \/ \E x \in Elems : ArcDrop(x)
    \/ \E x \in Elems : ArcNew(x)

SpecList == Init /\ [][NextList]_vars

(***************************************************************************)
(* Properties of the raw list.                                             *)
(***************************************************************************)
FwdNext(l) == FwdOf(MemNext, l)
BwdNext(l) == BwdOf(MemNext, l)

\* C1: a list built from empty by push_back alone iterates forwards as the
\* pushed elements in the order of the pushes, and backwards as the same
\* elements in the reverse order, after every push (and when still empty).
C1_PushBackOrder ==
    \A l \in Lists :
        hist[l].kind \in {"new", "back"} =>
            /\ Fwd(l) = hist[l].seq
            /\ Bwd(l) = Reverse(hist[l].seq)

\* A list of NumElems elements, all of them taken by push_back.
C1_Witness ==
    /\ last.op = "push_back"
    /\ last.ok
    /\ \E l \in Lists : hist[l].kind = "back" /\ Len(hist[l].seq) = NumElems

\* C2: remove of the element at any position of a list returns true and
\* leaves the list iterating forwards as before with that one element cut
\* out, and backwards as the exact reverse of that.
C2_RemoveExcises ==
    [][\A l \in Lists, x \in Elems :
          (last'.op = "remove" /\ OnList(l, x) /\ Remove(l, x)) =>
              /\ last'.ok
              /\ FwdNext(l) = Excise(Fwd(l), IndexOf(Fwd(l), x))
              /\ BwdNext(l) = Reverse(FwdNext(l))]_vars

\* A remove has succeeded and left a list of NumElems - 1 elements, the
\* removed element detached.
C2_Witness ==
    /\ last.op = "remove"
    /\ last.ok
    /\ \E l \in Lists : Len(Fwd(l)) = NumElems - 1
    /\ Cardinality({x \in Elems : next[x] = None /\ ~inserted[x]}) = 1

\* C3: insert_after of an unlinked element K after the element at position
\* i returns true and leaves the list iterating forwards as before with K
\* spliced in right after position i, and backwards as the reverse of that.
C3_InsertAfterSplices ==
    [][\A l \in Lists, existing \in Elems, x \in Elems :
          (/\ last'.op = "insert_after"
           /\ ~Linked(x)
           /\ InsertAfter(l, existing, x)) =>
              /\ last'.ok
              /\ FwdNext(l) = Splice(Fwd(l), IndexOf(Fwd(l), existing), x)
              /\ BwdNext(l) = Reverse(FwdNext(l))]_vars

\* An insert_after has filled a list to NumElems elements.
C3_Witness ==
    /\ last.op = "insert_after"
    /\ last.ok
    /\ \E l \in Lists : Len(Fwd(l)) = NumElems

\* C4: push_front of an unlinked element x returns true and leaves the list
\* iterating forwards as x followed by what it held, backwards as the
\* reverse of that; so a list built from empty by push_front alone holds
\* the pushed elements in the reverse order of the pushes.
C4_PushFrontPrepends ==
    /\ [][\A l \in Lists, x \in Elems :
            (/\ last'.op = "push_front"
             /\ ~Linked(x)
             /\ BuildPushFront(l, x)) =>
                /\ last'.ok
                /\ FwdNext(l) = <<x>> \o Fwd(l)
                /\ BwdNext(l) = Reverse(FwdNext(l))]_vars
    /\ [](\A l \in Lists :
            hist[l].kind = "front" =>
                /\ Fwd(l) = Reverse(hist[l].seq)
                /\ Bwd(l) = hist[l].seq)

\* A list of NumElems elements, all of them taken by push_front.
C4_Witness ==
    /\ last.op = "push_front"
    /\ last.ok
    /\ \E l \in Lists : hist[l].kind = "front" /\ Len(hist[l].seq) = NumElems

\* C5: no element is on the chain of two lists, and no element is twice on
\* the chain of a list.
C5_OneListAtATime ==
    /\ \A l \in Lists : NoDup(Fwd(l))
    /\ \A l1, l2 \in Lists :
          l1 # l2 => Range(Fwd(l1)) \cap Range(Fwd(l2)) = {}

\* Every element is linked, on two lists, and an insertion of one of them
\* has just been turned down.
C5_Witness ==
    /\ last.op \in {"push_back", "push_front", "insert_after"}
    /\ ~last.ok
    /\ \A x \in Elems : Linked(x)
    /\ Cardinality({l \in Lists : Fwd(l) # <<>>}) >= 2

\* The chain of list l is one ring: no element twice, and the backward walk
\* is the forward walk reversed.
WellFormed(l) == NoDup(Fwd(l)) /\ Bwd(l) = Reverse(Fwd(l))

\* Thread t is in, or has returned from, an insertion of x that began while
\* the guard of x was clear.
Attempts(t, x) == call[t].op \in Inserts /\ call[t].x = x /\ call[t].free

\* C6: when two threads, each on its own list, attempt to insert the same
\* unlinked element at the same time, the compare-and-swap lets exactly one
\* attempt succeed (no two threads ever hold the guard of one element, and
\* two attempts both lose only when a further thread took it); the losing
\* attempt returns false having written no head and no next/prev field;
\* and once both have returned the element is on the winner's chain and on
\* no other, and both chains are well-formed.
C6_ConcurrentInsertOneWinner ==
    \A s \in Lists : \A t \in Lists \ {s} : \A x \in Elems :
        LET bothReturned == /\ Attempts(s, x) /\ Attempts(t, x)
                            /\ pc[s] = "done" /\ pc[t] = "done"
            bothLost == ~call[s].ok /\ ~call[t].ok
            sWon == call[s].ok /\ ~call[t].ok
        IN  /\ ~(HasGuard(s, x) /\ HasGuard(t, x))
            /\ bothReturned => ~(call[s].ok /\ call[t].ok)
            /\ (bothReturned /\ bothLost) =>
                    (call[s].by \in Lists \ {s, t}
                        \/ call[t].by \in Lists \ {s, t})
            /\ (bothReturned /\ ~call[t].ok) => ~wrote[t]
            /\ (bothReturned /\ sWon) =>
                    (OnList(s, x)
                        /\ (\A l \in Lists \ {s} : ~OnList(l, x))
                        /\ inserted[x]
                        /\ WellFormed(s)
                        /\ WellFormed(t))

\* Two threads raced for one free element, both returned, one won and the
\* loser's list has elements of its own.
C6_Witness ==
    \E s \in Lists : \E t \in Lists \ {s} : \E x \in Elems :
        /\ Attempts(s, x) /\ Attempts(t, x)
        /\ pc[s] = "done" /\ pc[t] = "done"
        /\ call[s].ok /\ ~call[t].ok
        /\ OnList(s, x)
        /\ Len(Fwd(s)) >= 2
        /\ Len(Fwd(t)) >= 1

\* C7: push_back, push_front or insert_after of an element that is linked,
\* on this list or on another, returns false and writes nothing: every head,
\* every next and prev and every guard bit stay as they were, and so do the
\* length and the order of every list.
C7_RejectedInsertIsNoOp ==
    \A x \in Elems :
        Linked(x) =>
            \A l \in Lists :
                LET Rejected(r) ==
                        /\ ~r.ok
                        /\ r.m = Mem
                        /\ \A k \in Lists :
                              FwdOf(r.m, k) = Fwd(k) /\ BwdOf(r.m, k) = Bwd(k)
                IN  /\ Rejected(push_back(Mem, l, x))
                    /\ Rejected(push_front(Mem, l, x))
                    /\ \A existing \in Elems :
                          InsertAfterPre(l, existing) =>
                              Rejected(insert_after(Mem, existing, x))

\* An insertion has been turned down while an element is on each of two
\* lists.
C7_Witness ==
    /\ last.op \in {"push_back", "push_front", "insert_after"}
    /\ ~last.ok
    /\ \E l1, l2 \in Lists : l1 # l2 /\ Fwd(l1) # <<>> /\ Fwd(l2) # <<>>

(***************************************************************************)
(* Properties of the ownership facade.                                     *)
(***************************************************************************)
\* C8: List::push_back, push_front or insert_after of a handle to a linked
\* element rebuilds the handle and releases it once: the strong count drops
\* by exactly one, no raw identity is left over, the element stays linked
\* where it was and stays alive for the list that keeps it.
C8_RejectedHandleReleasedOnce ==
    \A x \in Elems :
        (Linked(x) /\ caller[x] >= 1) =>
            \A l \in Lists :
                LET Released(r) ==
                        /\ ~r.ok
                        /\ r.h.strong[x] = strong[x] - 1
                        /\ r.h.caller[x] = caller[x] - 1
                        /\ r.h.owned = owned
                        /\ \A y \in Elems \ {x} :
                              /\ r.h.strong[y] = strong[y]
                              /\ r.h.caller[y] = caller[y]
                        /\ r.m = Mem
                        /\ r.h.strong[x] >= 1
                IN  /\ Released(List_push_back(Mem, Handles, l, x))
                    /\ Released(List_push_front(Mem, Handles, l, x))
                    /\ \A existing \in Elems :
                          InsertAfterPre(l, existing) =>
                              Released(List_insert_after(Mem, Handles, l,
                                                         existing, x))

\* A push on a List has been turned down; the element is linked and only the
\* list's own count is left.
C8_Witness ==
    /\ last.op \in {"List.push_back", "List.push_front", "List.insert_after"}
    /\ ~last.ok
    /\ \E x \in Elems : Linked(x) /\ strong[x] = 1 /\ caller[x] = 0

\* C9: a List keeps a raw identity for exactly the elements on its chain,
\* one each, and every count is the handles outside plus the identities
\* kept.  A successful insertion moves one handle of the caller into the
\* list; a successful remove, pop_front or remove_current hands one handle,
\* for the unlinked element, back; a remove that removes nothing makes no
\* handle.
C9_ListOwnsItsChain ==
    /\ \A l \in Lists, x \in Elems :
          owned[l][x] = IF OnList(l, x) THEN 1 ELSE 0
    /\ \A x \in Elems :
          strong[x] = caller[x]
                        + Cardinality({l \in Lists : owned[l][x] = 1})
    /\ \A l \in Lists, x \in Elems :
          LET Moved(r, a, b, d) ==
                  /\ r.h.strong = strong
                  /\ r.h.caller = [caller EXCEPT ![x] = @ + d]
                  /\ r.h.owned = [owned EXCEPT ![l][x] = @ - d]
                  /\ OnList(l, x) = a
                  /\ (x \in Range(FwdOf(r.m, l))) = b
          IN  /\ (~Linked(x) /\ caller[x] >= 1) =>
                    /\ Moved(List_push_back(Mem, Handles, l, x),
                             FALSE, TRUE, -1)
                    /\ Moved(List_push_front(Mem, Handles, l, x),
                             FALSE, TRUE, -1)
                    /\ \A existing \in Elems :
                          InsertAfterPre(l, existing) =>
                              Moved(List_insert_after(Mem, Handles, l,
                                                      existing, x),
                                    FALSE, TRUE, -1)
              /\ OnList(l, x) =>
                    /\ List_remove(Mem, Handles, l, x).out = x
                    /\ Moved(List_remove(Mem, Handles, l, x), TRUE, FALSE, 1)
              /\ ~Linked(x) =>
                    /\ List_remove(Mem, Handles, l, x).out = None
                    /\ Moved(List_remove(Mem, Handles, l, x), FALSE, FALSE, 0)
              /\ front(Mem, l) = x =>
                    /\ List_pop_front(Mem, Handles, l).out = x
                    /\ Moved(List_pop_front(Mem, Handles, l), TRUE, FALSE, 1)
              /\ (active[l] /\ cur[l] = x) =>
                    /\ List_remove_current(Mem, Handles, l, x).out = x
                    /\ Moved(List_remove_current(Mem, Handles, l, x),
                             TRUE, FALSE, 1)

\* A cursor has removed an element of a List that keeps others, while
\* another List keeps elements too.
C9_Witness ==
    /\ last.op = "List.remove_current"
    /\ last.ok
    /\ caller[last.out] >= 1
    /\ \A l \in Lists : Fwd(l) # <<>>

\* C10: teardown of a List that holds n elements ends after exactly n pops
\* that return an element, with the chain empty; every element that was
\* linked has its handle rebuilt and released exactly once and is left
\* detached (guard false, next and prev absent); nothing else changes.
C10_TeardownReleasesAll ==
    \A l \in Lists :
        LET r == List_drop(Mem, Handles, l)
            was == Range(Fwd(l))
        IN  /\ r.pops = Len(Fwd(l))
            /\ r.m.head[l] = None
            /\ FwdOf(r.m, l) = <<>>
            /\ \A x \in was :
                  /\ r.h.strong[x] = strong[x] - 1
                  /\ r.h.caller[x] = caller[x]
                  /\ r.h.owned[l][x] = 0
                  /\ ~r.m.inserted[x]
                  /\ r.m.next[x] = None
                  /\ r.m.prev[x] = None
            /\ \A x \in Elems \ was :
                  /\ r.h.strong[x] = strong[x]
                  /\ r.h.caller[x] = caller[x]
                  /\ r.h.owned[l][x] = owned[l][x]
                  /\ r.m.inserted[x] = inserted[x]
                  /\ r.m.next[x] = next[x]
                  /\ r.m.prev[x] = prev[x]

\* A List that held every element has been torn down, and every element of
\* which the caller held no handle is freed.
C10_Witness ==
    /\ last.op = "List.drop"
    /\ last.count = NumElems
    /\ \A x \in Elems : ~inserted[x] /\ next[x] = None
    /\ \E x \in Elems : strong[x] = 0


\* An element that is in no list: no links, guard clear.
Detached(m, x) == m.next[x] = None /\ m.prev[x] = None /\ ~m.inserted[x]

\* C11: on every reachable list of n elements, pop_front called n times
\* returns an element every time; after that is_empty is true, and every
\* further pop_front returns nothing and changes nothing.
C11_PopFrontDrains ==
    \A l \in Lists :
        LET n == Len(Fwd(l))
            outs == PopOuts(Mem, l, n + 2)
            m2 == PopMem(Mem, l, n)
        IN  /\ \A i \in 1..n : outs[i] # None
            /\ \A k \in 0..(n - 1) : ~is_empty(PopMem(Mem, l, k), l)
            /\ is_empty(m2, l)
            /\ outs[n + 1] = None /\ outs[n + 2] = None
            /\ PopMem(Mem, l, n + 1) = m2
            /\ PopMem(Mem, l, n + 2) = m2

\* Elements had been pushed, the lists have been emptied again, and one
\* more pop_front has returned nothing.
C11_Witness ==
    /\ last.op = "pop_front"
    /\ ~last.ok
    /\ \A x \in Elems : Detached(Mem, x)
    /\ \A l \in Lists : is_empty(Mem, l)

\* C12: pop_front on a non-empty list returns the element front() reports,
\* leaves the other elements in their order with the old second element as
\* the new front, and leaves the popped element detached; so a list built by
\* push_back alone pops its elements in the order they were pushed.
C12_PopFrontTakesHead ==
    \A l \in Lists :
        LET r == pop_front(Mem, l)
            n == Len(Fwd(l))
        IN  /\ ~is_empty(Mem, l) =>
                /\ r.out = front(Mem, l)
                /\ r.out = Fwd(l)[1]
                /\ FwdOf(r.m, l) = Tail(Fwd(l))
                /\ BwdOf(r.m, l) = Reverse(Tail(Fwd(l)))
                /\ front(r.m, l) = IF n >= 2 THEN Fwd(l)[2] ELSE None
                /\ Detached(r.m, r.out)
                /\ \A k \in Lists \ {l} : FwdOf(r.m, k) = Fwd(k)
            /\ hist[l].kind = "back" => PopOuts(Mem, l, n) = hist[l].seq

\* pop_front has just taken the first of NumElems elements pushed to the
\* back of one list.
C12_Witness ==
    /\ last.op = "pop_front"
    /\ last.ok
    /\ Detached(Mem, last.out)
    /\ \E l \in Lists : Len(Fwd(l)) = NumElems - 1

\* How often x is among the entries of s.
Occurrences(s, x) == Cardinality({i \in 1..Len(s) : s[i] = x})

\* C13: on one double-ended iterator over an n-element list, over any
\* interleaving of next and next_back calls every element is yielded at
\* most once in total, and once all n elements have been yielded both next
\* and next_back return nothing.
C13_IteratorEndsMeet ==
    \A l \in Lists :
        iter[l].on =>
            /\ \A x \in Elems : Occurrences(iter[l].seen, x) <= 1
            /\ Range(iter[l].seen) = Range(Fwd(l)) =>
                    /\ Iterator_next(Mem, l, iter[l]).out = None
                    /\ Iterator_next_back(Mem, l, iter[l]).out = None

\* C14: a cursor started on the front of an n-element list follows next
\* through n different elements and stands on the back after n-1 move_next
\* calls; one more move_next puts it on None, not back on head; from None
\* move_next goes to head.  So forward iteration yields n elements (every
\* linked element is counted) and returns nothing on every later call.
C14_OneCircuit ==
    /\ \A l \in Lists :
        LET n == Len(Fwd(l))
            pos == [k \in 0..(n + 1) |->
                        MoveNextTimes(Mem, l, front(Mem, l), k)]
            it == [k \in 0..(n + 2) |->
                        NextCallsOf(Mem, l, Iterator_new(Mem, l), k)]
        IN  /\ \A k \in 0..(n - 1) :
                  /\ pos[k] # None
                  /\ pos[k] = NextTimes(Mem, head[l], k)
                  /\ \A j \in 0..(n - 1) : j # k => pos[j] # pos[k]
            /\ n >= 1 => /\ pos[n - 1] = back(Mem, l)
                         /\ next[pos[n - 1]] = head[l]
            /\ pos[n] = None
            /\ pos[n + 1] = head[l]
            /\ Len(it[n].seen) = n
            /\ \A k \in 0..(n - 1) : it[n].seen[k + 1] = pos[k]
            /\ Iterator_next(Mem, l, it[n]).out = None
            /\ it[n + 1] = it[n]
            /\ it[n + 2] = it[n]
    /\ Cardinality({x \in Elems : inserted[x]})
          = Cardinality(UNION {Range(Fwd(l)) : l \in Lists})

\* A cursor has gone through a list of NumElems elements and its last
\* move_next, from the back, has put it on None.
C14_Witness ==
    /\ last.op = "move_next"
    /\ ~last.ok
    /\ \E l \in Lists :
          /\ active[l]
          /\ cur[l] = None
          /\ Len(Fwd(l)) = NumElems

\* C15: remove_current with the cursor on element x returns x, cuts x out
\* of the list (the other elements keep their order, x is detached and its
\* guard released) and leaves the cursor on the element that followed x,
\* or on None when x was the last or the only element; with the cursor on
\* None it returns nothing and changes nothing.  The cursor of a borrowed
\* list is never on an element that is not on the list.
C15_RemoveCurrentAdvances ==
    \A l \in Lists :
      LET f == Fwd(l)
      IN
        /\ active[l] => cur[l] \in Range(f) \cup {None}
        /\ remove_current(Mem, l, None) = [out |-> None, cur |-> None,
                                           m |-> Mem]
        /\ \A i \in 1..Len(f) :
              LET x == f[i]
                  r == remove_current(Mem, l, x)
                  g == FwdOf(r.m, l)
              IN  /\ r.out = x
                  /\ g = Excise(f, i)
                  /\ BwdOf(r.m, l) = Reverse(Excise(f, i))
                  /\ Detached(r.m, x)
                  /\ r.cur = IF i < Len(f) THEN f[i + 1] ELSE None
                  /\ r.cur # x
                  /\ r.cur \in Range(g) \cup {None}
                  /\ \A k \in Lists \ {l} : FwdOf(r.m, k) = Fwd(k)

\* remove_current has taken an element that was not the last one: the
\* cursor stands on the element that followed it.
C15_Witness ==
    /\ last.op = "remove_current"
    /\ last.ok
    /\ Detached(Mem, last.out)
    /\ \E l \in Lists :
          /\ active[l]
          /\ cur[l] # None
          /\ cur[l] \in Range(Fwd(l))
          /\ Len(Fwd(l)) = NumElems - 1

\* C16: on an empty list is_empty is true, front and back are absent,
\* pop_front returns nothing and changes nothing, and iteration from either
\* end yields no element; remove of an element that is in no list returns
\* false (None from List::remove) and leaves the list, the element's Links
\* and the handles as they are, whether the list is empty or not.
C16_EmptyAndAbsent ==
    /\ \A l \in Lists :
          is_empty(Mem, l) =>
              /\ front(Mem, l) = None
              /\ back(Mem, l) = None
              /\ pop_front(Mem, l) = [out |-> None, m |-> Mem]
              /\ Fwd(l) = <<>>
              /\ Bwd(l) = <<>>
              /\ Iterator_next(Mem, l, Iterator_new(Mem, l)).out = None
              /\ Iterator_next_back(Mem, l, Iterator_new(Mem, l)).out = None
    /\ \A x \in Elems : inserted[x] = Linked(x)
    /\ \A l \in Lists, x \in Elems :
          ~Linked(x) =>
              /\ remove(Mem, l, x) = [ok |-> FALSE, m |-> Mem]
              /\ List_remove(Mem, Handles, l, x)
                    = [out |-> None, m |-> Mem, h |-> Handles]

\* remove of an element that is in no list has just returned false, with
\* one list empty and another one not.
C16_Witness ==
    /\ last.op = "remove"
    /\ ~last.ok
    /\ \E l \in Lists : is_empty(Mem, l)
    /\ \E l \in Lists : Len(Fwd(l)) >= 2
    /\ \E x \in Elems : Detached(Mem, x)

\* C17: within the documented preconditions (insert_after: existing is on
\* this list; remove: the element is on this list or on no list) no call
\* aborts: in every reachable state the links the code unwraps -- the old
\* existing.next in insert_after and the pushes, data.prev in remove, pop_front
\* and remove_current, cur.next in move_next -- are present.
C17_NoAbort ==
    \A l \in Lists :
        /\ \A x \in Elems : ~push_back_internal_aborts(Mem, l, x)
        /\ \A existing \in Elems, x \in Elems :
              insert_after_aborts(Mem, existing, x) =>
                  ~InsertAfterPre(l, existing)
        /\ \A x \in Elems :
              remove_internal_aborts(Mem, l, x) => ~RemovePre(l, x)
        /\ ~pop_front_aborts(Mem, l)
        /\ \A c \in Range(Fwd(l)) \cup {None} :
              /\ ~move_next_aborts(Mem, l, c)
              /\ ~remove_current_aborts(Mem, l, c)
        /\ active[l] =>
              /\ ~move_next_aborts(Mem, l, cur[l])
              /\ ~remove_current_aborts(Mem, l, cur[l])

\* Every unwrap has been gone through: a list of NumElems elements was
\* built, a cursor was moved to its back and remove_current took the back.
C17_Witness ==
    /\ last.op = "remove_current"
    /\ last.ok
    /\ \E l \in Lists :
          /\ active[l]
          /\ cur[l] = None
          /\ Len(Fwd(l)) = NumElems - 1
          /\ last.out \notin Range(Fwd(l))

\* Element x, in no list in memory m, is taken by the next insertion into
\* any list, and is on that list and on no other afterwards.
Reinsertable(m, x) ==
    \A l \in Lists :
        LET OnlyOn(m2) == \A k \in Lists :
                              (x \in Range(FwdOf(m2, k))) = (k = l)
        IN  /\ push_back(m, l, x).ok
            /\ OnlyOn(push_back(m, l, x).m)
            /\ push_front(m, l, x).ok
            /\ OnlyOn(push_front(m, l, x).m)
            /\ \A existing \in Range(FwdOf(m, l)) :
                  /\ insert_after(m, existing, x).ok
                  /\ OnlyOn(insert_after(m, existing, x).m)

\* C18: while an element is linked every insertion of it, into any list,
\* fails; once remove, pop_front or remove_current has taken it off its
\* list, the next insertion of it, into the same list or another one,
\* succeeds and links it there.
C18_ReinsertAfterDetach ==
    \A x \in Elems :
        /\ Linked(x) =>
              \A l \in Lists :
                  /\ ~push_back(Mem, l, x).ok
                  /\ ~push_front(Mem, l, x).ok
                  /\ \A existing \in Range(Fwd(l)) :
                        ~insert_after(Mem, existing, x).ok
        /\ \A l \in Lists :
              OnList(l, x) =>
                  /\ Reinsertable(remove(Mem, l, x).m, x)
                  /\ remove_current(Mem, l, x).m = remove(Mem, l, x).m
                  /\ x = front(Mem, l) =>
                        pop_front(Mem, l).m = remove(Mem, l, x).m

\* An element that remove or pop_front took off one list has been inserted
\* into another list.
C18_Witness ==
    /\ last.op \in Inserts
    /\ last.ok
    /\ \E l \in Lists, x \in Elems :
          /\ hist[l] = Taken(x)
          /\ ~OnList(l, x)
          /\ Linked(x)

\* C19: insert_after applied to the last element of a non-empty list with
\* an unlinked element x leaves exactly the memory (head, every next and
\* prev field, the guard of x) that push_back(x) on the same list leaves.
C19_InsertAfterBackIsPushBack ==
    \A l \in Lists, x \in Elems :
        (~is_empty(Mem, l) /\ ~Linked(x)) =>
            /\ insert_after(Mem, back(Mem, l), x).ok
            /\ push_back(Mem, l, x).ok
            /\ insert_after(Mem, back(Mem, l), x).m = push_back(Mem, l, x).m
            /\ FwdOf(push_back(Mem, l, x).m, l) = Append(Fwd(l), x)

\* insert_after has put a second element after the only, hence last,
\* element of a list.
C19_Witness ==
    /\ last.op = "insert_after"
    /\ last.ok
    /\ Cardinality({x \in Elems : inserted[x]}) = 2
    /\ \E l \in Lists : Len(Fwd(l)) = 2

\* C20: after every completed call each list is a well-formed circle.  If
\* head is absent no element is linked into the list (every element with
\* links or a set guard is on the walk of some list).  If head is present,
\* next followed from head goes through every member once and comes back to
\* head, prev followed from head goes through them in the reverse order,
\* and x.next.prev = x and x.prev.next = x for every member x; a sole
\* member points to itself both ways.
C20_WellFormedCircle ==
    /\ \A x \in Elems :
          (inserted[x] \/ next[x] # None \/ prev[x] # None) => Linked(x)
    /\ \A l \in Lists :
          LET f == Fwd(l)
              n == Len(f)
              h == head[l]
          IN  /\ (h = None) = (n = 0)
              /\ h # None =>
                    /\ n <= NumElems
                    /\ NextTimes(Mem, h, n) = h
                    /\ PrevTimes(Mem, h, n) = h
                    /\ \A k \in 0..(n - 1) :
                          /\ NextTimes(Mem, h, k) = f[k + 1]
                          /\ PrevTimes(Mem, h, k) = NextTimes(Mem, h, n - k)
                          /\ \A j \in 0..(n - 1) :
                                j # k => NextTimes(Mem, h, j)
                                            # NextTimes(Mem, h, k)
                    /\ \A x \in Range(f) :
                          /\ inserted[x]
                          /\ next[x] # None /\ prev[next[x]] = x
                          /\ prev[x] # None /\ next[prev[x]] = x
                          /\ \A k \in Lists \ {l} : ~OnList(k, x)
                    /\ n = 1 => next[h] = h /\ prev[h] = h

\* A cursor's remove_current has left a list with a sole member, linked to
\* itself, next to another list with a sole member.
C20_Witness ==
    /\ last.op = "remove_current"
    /\ last.ok
    /\ \E l \in Lists :
          /\ active[l]
          /\ Len(Fwd(l)) = 1
          /\ next[head[l]] = head[l]
          /\ prev[head[l]] = head[l]
          /\ \E k \in Lists \ {l} : Len(Fwd(k)) = 1

\* C21: after every completed call the next and prev of every element are
\* both present or both absent: no call leaves an element half-linked.
C21_NeverHalfLinked ==
    \A x \in Elems : (next[x] = None) = (prev[x] = None)

\* A call has taken an element off a list that keeps other elements: one
\* element has neither link, the others have both.
C21_Witness ==
    /\ last.op \in {"remove", "pop_front", "remove_current"}
    /\ last.ok
    /\ \E x \in Elems : next[x] = None /\ prev[x] = None
    /\ \E x \in Elems : next[x] \notin {None, x} /\ prev[x] \notin {None, x}

\* The guard bits as a call leaves them, given the bits it found: x set
\* (to = TRUE) or cleared (to = FALSE), the other bits as they were.
Flipped(x, to) == [inserted EXCEPT ![x] = to]

\* C22: after every completed call an element's guard bit is true exactly
\* when the element is linked in some chain.  The bit starts false, goes
\* from false to true exactly in an insertion that succeeds, is left alone
\* by an insertion that fails and by a remove that fails, and goes back to
\* false exactly when remove, pop_front or remove_current unlinks the
\* element.
C22_GuardTracksLinkage ==
    /\ \A x \in Elems : inserted[x] = Linked(x)
    /\ last.op = "none" => \A x \in Elems : ~inserted[x]
    /\ \A l \in Lists, x \in Elems :
          LET pb == push_back(Mem, l, x)
              pf == push_front(Mem, l, x)
              rm == remove(Mem, l, x)
              rc == remove_current(Mem, l, x)
          IN  /\ pb.ok = ~inserted[x]
              /\ pb.m.inserted = Flipped(x, TRUE)
              /\ pf.ok = ~inserted[x]
              /\ pf.m.inserted = Flipped(x, TRUE)
              /\ \A existing \in Range(Fwd(l)) :
                    /\ insert_after(Mem, existing, x).ok = ~inserted[x]
                    /\ insert_after(Mem, existing, x).m.inserted
                          = Flipped(x, TRUE)
              /\ RemovePre(l, x) =>
                    /\ rm.ok = inserted[x]
                    /\ rm.m.inserted = Flipped(x, FALSE)
              /\ OnList(l, x) =>
                    /\ rc.out = x
                    /\ rc.m.inserted = Flipped(x, FALSE)
    /\ \A l \in Lists :
          pop_front(Mem, l).m.inserted
              = IF is_empty(Mem, l) THEN inserted
                ELSE Flipped(front(Mem, l), FALSE)

\* pop_front has cleared the guard of the element it took while the
\* guards of the elements left on the lists stay set.
C22_Witness ==
    /\ last.op = "pop_front"
    /\ last.ok
    /\ ~inserted[last.out]
    /\ Cardinality({x \in Elems : inserted[x]}) = NumElems - 1

\* Thread t is between winning the guard of x and its last link write.
Linking(t, x) ==
    /\ call[t].op \in Inserts
    /\ call[t].x = x
    /\ pc[t] \in {"back", "w1", "w2", "w3", "w4", "w5", "e1", "e2", "e3"}

\* Thread t is between reading the links of x and releasing its guard.
Unlinking(t, x) ==
    /\ call[t].op = "pop_front"
    /\ call[t].x = x
    /\ pc[t] \in {"r1", "r2", "r3", "r4", "r5", "r6"}

\* C23: with calls on different lists interleaved step by step, in every
\* intermediate state an element whose guard bit is false has neither
\* link and is the head of no list and the next or prev of no element.  A
\* removal reaches the release only with both links of the element
\* cleared, an insertion writes only with the guard held, and no thread
\* is linking an element that another thread is still unlinking.
C23_FreeGuardMeansFreeLinks ==
    /\ \A x \in Elems :
          ~inserted[x] =>
              /\ next[x] = None
              /\ prev[x] = None
              /\ \A l \in Lists : head[l] # x
              /\ \A y \in Elems : next[y] # x /\ prev[y] # x
    /\ \A t \in Lists, x \in Elems :
          /\ Unlinking(t, x) /\ pc[t] = "r6" =>
                next[x] = None /\ prev[x] = None
          /\ Linking(t, x) \/ Unlinking(t, x) => inserted[x]
          /\ Linking(t, x) => \A u \in Lists \ {t} : ~Unlinking(u, x)

\* A thread is writing the links of an element whose guard it won after
\* another thread's pop_front took that element off its own list.
C23_Witness ==
    \E t \in Lists : \E u \in Lists \ {t} :
        /\ Linking(t, call[t].x)
        /\ wrote[t]
        /\ call[u].op = "pop_front"
        /\ call[u].x = call[t].x
        /\ call[u].ok
        /\ pc[u] = "done"

\* C24: remove of a member x changes head in one of three ways and no
\* other: x the only element, head becomes absent; x the head of a longer
\* list, head becomes the former next of x; x not the head, head stays.
\* The heads of the other lists stay.  insert_after and push_back onto a
\* list that has elements leave every head as it was.
C24_HeadFrame ==
    \A l \in Lists :
        /\ \A x \in Range(Fwd(l)) :
              remove(Mem, l, x).m.head
                  = [head EXCEPT ![l] = IF Len(Fwd(l)) = 1 THEN None
                                        ELSE IF head[l] = x THEN next[x]
                                        ELSE head[l]]
        /\ ~is_empty(Mem, l) =>
              \A x \in Elems :
                  /\ push_back(Mem, l, x).m.head = head
                  /\ \A existing \in Range(Fwd(l)) :
                        insert_after(Mem, existing, x).m.head = head

\* A remove has succeeded on a list that keeps NumElems - 1 elements: its
\* head is present, element 1, and the circle closes at element NumElems.
C24_Witness ==
    /\ last.op = "remove"
    /\ last.ok
    /\ \E l \in Lists :
          /\ Len(Fwd(l)) = NumElems - 1
          /\ head[l] = 1
          /\ prev[head[l]] = NumElems

\* C25: in every reachable state front() is the first element of the
\* forward iteration and back(), the prev of head, is its last element;
\* both are absent exactly when the list is empty, and they are one and
\* the same element exactly when the list has one element.
C25_FrontBackAreEnds ==
    \A l \in Lists :
        LET f == Fwd(l)
            n == Len(f)
        IN  /\ front(Mem, l) = IF n = 0 THEN None ELSE f[1]
            /\ back(Mem, l) = IF n = 0 THEN None ELSE f[n]
            /\ back(Mem, l) = IF head[l] = None THEN None ELSE prev[head[l]]
            /\ (front(Mem, l) = None) = is_empty(Mem, l)
            /\ (back(Mem, l) = None) = is_empty(Mem, l)
            /\ ~is_empty(Mem, l) => ((front(Mem, l) = back(Mem, l)) = (n = 1))

\* One list holds a single element, its front and back alike, while
\* another holds several, its front and back apart.
C25_Witness ==
    \E l \in Lists : \E k \in Lists \ {l} :
        /\ front(Mem, l) # None
        /\ front(Mem, l) = back(Mem, l)
        /\ front(Mem, k) # None
        /\ front(Mem, k) # back(Mem, k)
        /\ back(Mem, k) = Fwd(k)[NumElems - 1]

\* C26: run side by side with an abstract sequence -- appended to by a
\* push_back that succeeds, prepended to by a push_front, inserted into
\* right after the existing element by insert_after, deleted from by
\* remove and remove_current, its first dropped by pop_front, left alone
\* by an insertion that is turned down and by a remove or pop that takes
\* nothing -- after every call of every sequence of calls the forward
\* iteration of each list is the abstract sequence and the backward
\* iteration is its reverse.
C26_RefinesSequence ==
    \A l \in Lists :
        /\ Fwd(l) = Expected(l)
        /\ Bwd(l) = Reverse(Expected(l))

\* A list that no sequence of push_back alone can build: remove_current
\* has left a list expected to hold the highest element before the lowest.
C26_Witness ==
    /\ last.op = "remove_current"
    /\ last.ok
    /\ \E l \in Lists :
          /\ active[l]
          /\ Expected(l) = <<NumElems, 1>>
          /\ Fwd(l) = <<NumElems, 1>>

\* The places a cursor over list l can stand: an element of the list, or
\* None.
Positions(l) == Range(Fwd(l)) \cup {None}

\* C27: on a list that is not changed, move_next and move_prev undo each
\* other at every cursor position, None, the head and the back included:
\* move_next then move_prev, and move_prev then move_next, both bring the
\* cursor back to where it stood.  From None move_prev goes to the back and
\* move_next to the head; from the head move_prev goes to None.
C27_MovesAreInverses ==
    \A l \in Lists :
        /\ \A c \in Positions(l) :
              /\ move_prev(Mem, l, move_next(Mem, l, c)) = c
              /\ move_next(Mem, l, move_prev(Mem, l, c)) = c
        /\ move_prev(Mem, l, None) = back(Mem, l)
        /\ move_next(Mem, l, None) = front(Mem, l)
        /\ ~is_empty(Mem, l) => move_prev(Mem, l, head[l]) = None

\* move_prev has just taken a cursor from None to the back of a list of
\* NumElems elements.
C27_Witness ==
    /\ last.op = "move_prev"
    /\ last.ok
    /\ \E l \in Lists :
          /\ active[l]
          /\ Len(Fwd(l)) = NumElems
          /\ cur[l] = Fwd(l)[NumElems]
          /\ cur[l] # head[l]

\* C28: peek_next and peek_prev leave the cursor where it stands and the
\* head and every link as they are, and return the element current() would
\* return after move_next (for peek_prev: move_prev) from that position:
\* the element one further along the forward iteration (one back), nothing
\* when the cursor is on the back (on the head), and the head (the back)
\* when the cursor is on None.
C28_PeekLooksWithoutMoving ==
    /\ last.op = "peek_next" =>
          \E l \in Lists :
              active[l] /\ last.out = move_next(Mem, l, cur[l])
    /\ last.op = "peek_prev" =>
          \E l \in Lists :
              active[l] /\ last.out = move_prev(Mem, l, cur[l])
    /\ \A l \in Lists :
        LET f == Fwd(l)
            n == Len(f)
        IN  /\ \A c \in Positions(l) :
                  /\ peek_next(Mem, l, c).cur = c
                  /\ peek_next(Mem, l, c).m = Mem
                  /\ peek_next(Mem, l, c).out = move_next(Mem, l, c)
                  /\ peek_prev(Mem, l, c).cur = c
                  /\ peek_prev(Mem, l, c).m = Mem
                  /\ peek_prev(Mem, l, c).out = move_prev(Mem, l, c)
            /\ \A i \in 1..n :
                  /\ peek_next(Mem, l, f[i]).out
                        = IF i = n THEN None ELSE f[i + 1]
                  /\ peek_prev(Mem, l, f[i]).out
                        = IF i = 1 THEN None ELSE f[i - 1]
            /\ peek_next(Mem, l, None).out = front(Mem, l)
            /\ peek_prev(Mem, l, None).out = back(Mem, l)

\* peek_next has returned nothing to the only cursor there is, which
\* stands on the back of a list of several elements and still stands there.
C28_Witness ==
    /\ last.op = "peek_next"
    /\ ~last.ok
    /\ \E l \in Lists :
          /\ active[l]
          /\ \A k \in Lists \ {l} : ~active[k]
          /\ Len(Fwd(l)) >= 2
          /\ cur[l] = back(Mem, l)
============================================================================
